---- MODULE Spec2Model ----
(***************************************************************************)
(* Model of the CSV processor: src/src/processor.py (class CSVProcessor)   *)
(* and its command line driver src/src/main.py (parse_conditions, main).   *)
(*                                                                         *)
(* Python strings are sequences of one-character strings.  float(), int()  *)
(* and str.strip() are computed on those sequences, over the alphabet      *)
(*   digits  .  e  space  letters                                          *)
(* (no sign, no underscore, no inf/nan).  A float is kept exactly, as an   *)
(* integer number of 10^-FracDigits units; binary rounding is not          *)
(* modelled.  Every row of a file has a value for every column of the      *)
(* header, and filter_data is called with an operator of OPERATORS, as     *)
(* parse_conditions guarantees.                                            *)
(***************************************************************************)
EXTENDS Integers, Sequences, FiniteSets

VARIABLES data, columns, cache_type, ret, pc, args, loaded, result_data, output

vars == <<data, columns, cache_type, ret, pc, args, loaded, result_data, output>>

(***************************************************************************)
(* Bounds of the model.                                                    *)
(***************************************************************************)
MaxRows == 2

FracDigits == 2

(***************************************************************************)
(* Characters and strings.                                                 *)
(***************************************************************************)
Digits == {"0", "1", "2", "3", "4", "5", "6", "7", "8", "9"}

DigitVal(c) ==
    CASE c = "0" -> 0 [] c = "1" -> 1 [] c = "2" -> 2 [] c = "3" -> 3
      [] c = "4" -> 4 [] c = "5" -> 5 [] c = "6" -> 6 [] c = "7" -> 7
      [] c = "8" -> 8 [] c = "9" -> 9

\* Unicode code point of a character: Python compares str values by it.
Ord(c) ==
    CASE c = " " -> 32 [] c = "." -> 46 [] c \in Digits -> 48 + DigitVal(c)
      [] c = "<" -> 60 [] c = "=" -> 61 [] c = ">" -> 62 [] c = "_" -> 95
      [] c = "a" -> 97 [] c = "b" -> 98 [] c = "c" -> 99 [] c = "d" -> 100
      [] c = "e" -> 101 [] c = "g" -> 103 [] c = "i" -> 105 [] c = "m" -> 109
      [] c = "n" -> 110 [] c = "p" -> 112 [] c = "s" -> 115 [] c = "u" -> 117
      [] c = "v" -> 118 [] c = "x" -> 120 [] c = "y" -> 121 [] c = "z" -> 122

RECURSIVE Pow10(_)
Pow10(n) == IF n <= 0 THEN 1 ELSE 10 * Pow10(n - 1)

\* str.strip(): drops leading and trailing white space.
RECURSIVE LStrip(_)
LStrip(s) == IF s # <<>> /\ Head(s) = " " THEN LStrip(Tail(s)) ELSE s

RECURSIVE RStrip(_)
RStrip(s) ==
    IF s # <<>> /\ s[Len(s)] = " " THEN RStrip(SubSeq(s, 1, Len(s) - 1)) ELSE s

Strip(s) == RStrip(LStrip(s))

\* c in s
Contains(s, c) == \E i \in 1..Len(s) : s[i] = c

\* Index of the first character of s that is in set cs; 0 when there is none.
FirstOf(s, cs) ==
    IF \E i \in 1..Len(s) : s[i] \in cs
    THEN CHOOSE i \in 1..Len(s) : s[i] \in cs /\ \A j \in 1..(i - 1) : s[j] \notin cs
    ELSE 0

AllDigits(s) == \A i \in 1..Len(s) : s[i] \in Digits

RECURSIVE DigitsValue(_)
DigitsValue(s) ==
    IF s = <<>> THEN 0
    ELSE 10 * DigitsValue(SubSeq(s, 1, Len(s) - 1)) + DigitVal(s[Len(s)])

\* Lexicographic order of two str values (Python's < on str).
RECURSIVE StrLess(_, _)
StrLess(a, b) ==
    IF b = <<>> THEN FALSE
    ELSE IF a = <<>> THEN TRUE
    ELSE IF Head(a) # Head(b) THEN Ord(Head(a)) < Ord(Head(b))
    ELSE StrLess(Tail(a), Tail(b))

(***************************************************************************)
(* The three column types and their constructors int(), float(), str().    *)
(* A constructor returns [ok, v]: ok = FALSE is Python's ValueError        *)
(* ("invalid literal for int()", "could not convert string to float").     *)
(***************************************************************************)
None == "None"

\* s cut at position pos (pos = 0: no cut), as str.partition does.
SplitAt(s, pos) ==
    [found |-> pos # 0,
     head |-> IF pos = 0 THEN s ELSE SubSeq(s, 1, pos - 1),
     tail |-> IF pos = 0 THEN <<>> ELSE SubSeq(s, pos + 1, Len(s))]

Partition(s, c) == SplitAt(s, FirstOf(s, {c}))

\* A float literal  digits [. digits] [e digits]  or  . digits [e digits]:
\* m is the mantissa cut at ".", x the literal cut at "e".
FloatOfParts(m, x) ==
    IF /\ AllDigits(m.head) /\ AllDigits(m.tail)
       /\ Len(m.head) + Len(m.tail) > 0
       /\ x.found => (x.tail # <<>> /\ AllDigits(x.tail))
    THEN [ok |-> TRUE,
          v |-> DigitsValue(m.head \o m.tail)
                  * Pow10(DigitsValue(x.tail) + FracDigits - Len(m.tail))]
    ELSE [ok |-> FALSE, v |-> 0]

FloatOfLiteral(x) == FloatOfParts(Partition(x.head, "."), x)

\* float(s)
PyFloat(s) == FloatOfLiteral(Partition(Strip(s), "e"))

IntOfLiteral(t) ==
    IF t # <<>> /\ AllDigits(t)
    THEN [ok |-> TRUE, v |-> DigitsValue(t)]
    ELSE [ok |-> FALSE, v |-> 0]

\* int(s)
PyInt(s) == IntOfLiteral(Strip(s))

\* column_type(s) for column_type in {int, float, str}
Coerce(column_type, s) ==
    CASE column_type = "int" -> PyInt(s)
      [] column_type = "float" -> PyFloat(s)
      [] column_type = "str" -> [ok |-> TRUE, v |-> s]

\* x < y and the OPERATORS table, on two values of one column type.
Less(column_type, x, y) ==
    IF column_type = "str" THEN StrLess(x, y) ELSE x < y

OPERATORS == {">", "<", "="}

ApplyOperator(operator, column_type, x, y) ==
    CASE operator = ">" -> Less(column_type, y, x)
      [] operator = "<" -> Less(column_type, x, y)
      [] operator = "=" -> x = y

(***************************************************************************)
(* Names used by the program and by the calls of the model.                *)
(***************************************************************************)
avg == <<"a", "v", "g">>

min == <<"m", "i", "n">>

max == <<"m", "a", "x">>

median == <<"m", "e", "d">>

asc == <<"a", "s", "c">>

desc == <<"d", "e", "s", "c">>

up == <<"u", "p">>

AGGREGATORS == {avg, min, max}

Range(s) == {s[i] : i \in 1..Len(s)}

Reverse(s) == [i \in 1..Len(s) |-> s[Len(s) + 1 - i]]

RECURSIVE Sum(_)
Sum(s) == IF s = <<>> THEN 0 ELSE Head(s) + Sum(Tail(s))

RECURSIVE MinOf(_)
MinOf(s) ==
    IF Len(s) = 1 THEN s[1]
    ELSE IF \A i \in 2..Len(s) : s[1] <= s[i] THEN s[1] ELSE MinOf(Tail(s))

RECURSIVE MaxOf(_)
MaxOf(s) ==
    IF Len(s) = 1 THEN s[1]
    ELSE IF \A i \in 2..Len(s) : s[1] >= s[i] THEN s[1] ELSE MaxOf(Tail(s))

(***************************************************************************)
(* CSVProcessor.  `self` is [data, columns, cache_type].  A method returns *)
(* its outcome: err ("none" or the exception raised), the inferred type    *)
(* when inference ran, the returned rows or number (num = <<n, d>> is the  *)
(* value n / d), and the fields of self after the call.                    *)
(***************************************************************************)
Outcome(err, type, rows, num, self) ==
    [err |-> err, type |-> type, rows |-> rows, num |-> num,
     data |-> self.data, cache_type |-> self.cache_type]

\* __init__: the processor built on the rows csv.DictReader returns.
Loaded(rows, cols) ==
    [data |-> rows, columns |-> cols, cache_type |-> [c \in Range(cols) |-> None]]

Construct(rows, header) == Loaded(rows, IF rows # <<>> THEN header ELSE <<>>)

\* Mutant of ScanRows: has_float = '.' in value, so only the last row counts.
RECURSIVE ScanRowsLastDot(_, _, _)
ScanRowsLastDot(rows, column, has_float) ==
    IF rows = <<>> THEN (IF has_float THEN "float" ELSE "int")
    ELSE IF ~PyFloat(Strip(Head(rows)[column])).ok THEN "str"
    ELSE ScanRowsLastDot(Tail(rows), column, Contains(Strip(Head(rows)[column]), "."))

\* The loop of _find_column_type over the rows: the first value float()
\* rejects returns str at once, a "." in any value makes the column float.
RECURSIVE ScanRows(_, _, _)
ScanRows(rows, column, has_float) ==
    IF rows = <<>> THEN (IF has_float THEN "float" ELSE "int")
    ELSE IF ~PyFloat(Strip(Head(rows)[column])).ok THEN "str"
    ELSE ScanRows(Tail(rows), column,
                  has_float \/ Contains(Strip(Head(rows)[column]), "."))

\* _find_column_type: [type, cache_type]
Inferred(self, column, t) ==
    [type |-> t, cache_type |-> [self.cache_type EXCEPT ![column] = t]]

\* Mutant of FindColumnType: the cached type is not looked up.
FindColumnTypeUncached(self, column) ==
    Inferred(self, column, ScanRows(self.data, column, FALSE))

FindColumnType(self, column) ==
    IF self.cache_type[column] # None
    THEN [type |-> self.cache_type[column], cache_type |-> self.cache_type]
    ELSE Inferred(self, column, ScanRows(self.data, column, FALSE))

\* _validate_column passes
ValidColumn(self, column) == column \in Range(self.columns)

\* self once _find_column_type has returned t
Typed(self, t) == [self EXCEPT !.cache_type = t.cache_type]

Raise(err, type, self) == Outcome(err, type, <<>>, <<0, 1>>, self)

\* column_type(row[column]) succeeds on every row
RowsCoerce(rows, column, column_type) ==
    \A i \in 1..Len(rows) : Coerce(column_type, rows[i][column]).ok

\* [column_type(row[column]) for row in rows]
ColumnValues(rows, column, column_type) ==
    [i \in 1..Len(rows) |-> Coerce(column_type, rows[i][column]).v]

\* The rows the loop of filter_data appends to result.
FilterRows(rows, column, operator, column_type, typed_value) ==
    LET Keep(row) == ApplyOperator(operator, column_type,
                                   Coerce(column_type, row[column]).v, typed_value)
    IN  SelectSeq(rows, Keep)

\* Mutant of FilterTyped: the result is built in self.data, emptied first.
FilterTypedInPlace(after, column, operator, column_type, typed_value) ==
    IF ~typed_value.ok
    THEN Raise("ValueCoercionError", column_type, [after EXCEPT !.data = <<>>])
    ELSE IF ~RowsCoerce(after.data, column, column_type)
    THEN Raise("RowCoercionError", column_type, [after EXCEPT !.data = <<>>])
    ELSE Outcome("none", column_type,
                 FilterRows(after.data, column, operator, column_type, typed_value.v),
                 <<0, 1>>, after)

\* filter_data from line 57 on: after is self with the cache written.
FilterTyped(after, column, operator, column_type, typed_value) ==
    IF ~typed_value.ok
    THEN Raise("ValueCoercionError", column_type, after)
    ELSE IF ~RowsCoerce(after.data, column, column_type)
    THEN Raise("RowCoercionError", column_type, after)
    ELSE Outcome("none", column_type,
                 FilterRows(after.data, column, operator, column_type, typed_value.v),
                 <<0, 1>>, after)

FilterInferred(self, column, operator, value, t) ==
    FilterTyped(Typed(self, t), column, operator, t.type, Coerce(t.type, value))

filter_data(self, column, operator, value) ==
    IF ~ValidColumn(self, column)
    THEN Raise("ColumnNotFound", None, self)
    ELSE FilterInferred(self, column, operator, value, FindColumnType(self, column))

\* AGGREGATORS[function](values)
Aggregate(function, values, column_type, after) ==
    IF values = <<>>
    THEN Raise(IF function = avg THEN "ZeroDivisionError" ELSE "EmptySequence",
               column_type, after)
    ELSE Outcome("none", column_type, <<>>,
                 CASE function = avg -> <<Sum(values), Len(values)>>
                   [] function = min -> <<MinOf(values), 1>>
                   [] function = max -> <<MaxOf(values), 1>>,
                 after)

\* Mutant of AggregateTyped: no test for a text column, so sum() of str
\* values raises TypeError.
AggregateTypedNoTextTest(after, column, function, column_type) ==
    IF column_type = "str"
    THEN Raise("TypeError", column_type, after)
    ELSE IF ~RowsCoerce(after.data, column, column_type)
    THEN Raise("RowCoercionError", column_type, after)
    ELSE Aggregate(function, ColumnValues(after.data, column, column_type),
                   column_type, after)

\* aggregate_data from line 74 on
AggregateTyped(after, column, function, column_type) ==
    IF column_type = "str"
    THEN Raise("AggregationUnsupported", column_type, after)
    ELSE IF ~RowsCoerce(after.data, column, column_type)
    THEN Raise("RowCoercionError", column_type, after)
    ELSE Aggregate(function, ColumnValues(after.data, column, column_type),
                   column_type, after)

AggregateInferred(self, column, function, t) ==
    AggregateTyped(Typed(self, t), column, function, t.type)

aggregate_data(self, column, function) ==
    IF ~ValidColumn(self, column)
    THEN Raise("ColumnNotFound", None, self)
    ELSE IF function \notin AGGREGATORS
    THEN Raise("UnsupportedFunction", None, self)
    ELSE AggregateInferred(self, column, function, FindColumnType(self, column))

\* list.sort: x goes after every element that is not greater than it.
RECURSIVE InsertSorted(_, _, _, _)
InsertSorted(sorted, x, column, column_type) ==
    IF sorted = <<>> THEN <<x>>
    ELSE IF Less(column_type, Coerce(column_type, x[column]).v,
                 Coerce(column_type, Head(sorted)[column]).v)
    THEN <<x>> \o sorted
    ELSE <<Head(sorted)>> \o InsertSorted(Tail(sorted), x, column, column_type)

RECURSIVE StableSort(_, _, _)
StableSort(rows, column, column_type) ==
    IF rows = <<>> THEN <<>>
    ELSE InsertSorted(StableSort(SubSeq(rows, 1, Len(rows) - 1), column, column_type),
                      rows[Len(rows)], column, column_type)

\* sorted(rows, key, reverse): with reverse the list is reversed, sorted and
\* reversed again, which keeps equal keys in their original order.
Sorted(rows, column, column_type, reverse) ==
    IF reverse
    THEN Reverse(StableSort(Reverse(rows), column, column_type))
    ELSE StableSort(rows, column, column_type)

\* sort_data from line 88 on
SortTyped(after, column, direction, column_type) ==
    IF ~RowsCoerce(after.data, column, column_type)
    THEN Raise("RowCoercionError", column_type, after)
    ELSE Outcome("none", column_type,
                 Sorted(after.data, column, column_type, direction = desc),
                 <<0, 1>>, after)

SortInferred(self, column, direction, t) ==
    SortTyped(Typed(self, t), column, direction, t.type)

sort_data(self, column, direction) ==
    IF ~ValidColumn(self, column)
    THEN Raise("ColumnNotFound", None, self)
    ELSE IF direction \notin {asc, desc}
    THEN Raise("InvalidDirection", None, self)
    ELSE SortInferred(self, column, direction, FindColumnType(self, column))

(***************************************************************************)
(* The CSV files and the arguments of the calls the model draws from.      *)
(***************************************************************************)
price == <<"p">>

brand == <<"b">>

missing == <<"z">>

Header == <<price, brand>>

PriceValues ==
    {<<"1">>, <<" ", "2">>, <<"1", ".", "5">>, <<"1", "e", "1">>, <<"a">>}

BrandValues == {<<"x">>, <<"y">>}

FileRows == {[c \in {price, brand} |-> IF c = price THEN v ELSE w] :
                v \in PriceValues, w \in BrandValues}

Files == UNION {[1..n -> FileRows] : n \in 0..MaxRows}

CallColumns == {price, brand, missing}

CallValues == {<<"1">>, <<"1", ".", "5">>, <<"x">>}

CallFunctions == {avg, min, max, median}

CallDirections == {asc, desc, up}

(***************************************************************************)
(* State.  ret records the last call on the processor and its outcome.     *)
(***************************************************************************)
Self == [data |-> data, columns |-> columns, cache_type |-> cache_type]

Call(op, column, operator, function, direction, value, out) ==
    [op |-> op, column |-> column, operator |-> operator, function |-> function,
     direction |-> direction, value |-> value,
     err |-> out.err, type |-> out.type, rows |-> out.rows, num |-> out.num]

NoOutcome == [err |-> "none", type |-> None, rows |-> <<>>, num |-> <<0, 1>>]

NoCall == Call("none", <<>>, "", <<>>, <<>>, <<>>, NoOutcome)

NoOutput == [kind |-> "none", header |-> <<>>, rows |-> <<>>, num |-> <<0, 1>>,
             err |-> "none"]

NoArgs == [where |-> <<>>, aggregate |-> <<>>, order_by |-> <<>>]

\* The values of --where, --aggregate and --order-by (<<>>: not given).
WhereArgs ==
    {<<>>, <<"p", ">", "1">>, <<"b", " ", "=", " ", "x">>, <<"p", "=", "x">>,
     <<">", "1">>}

AggregateArgs ==
    {<<>>, <<"p", "=", "a", "v", "g">>, <<"p", "=", "m", "i", "n">>,
     <<"b", "=", "m", "a", "x">>, <<"p", "=", "m", "e", "d">>}

OrderByArgs ==
    {<<>>, <<"p", "=", "d", "e", "s", "c">>, <<"b", "=", "a", "s", "c">>,
     <<"p", "=", "u", "p">>, <<"p">>}

(***************************************************************************)
(* main.py                                                                 *)
(***************************************************************************)
\* re.match(r'^([^<>=]+?)([<>=])(.+)$', condition) with the match at pos
Matched(condition, pos) ==
    IF pos >= 2 /\ pos < Len(condition)
    THEN [ok |-> TRUE,
          column |-> Strip(SubSeq(condition, 1, pos - 1)),
          operator |-> condition[pos],
          value |-> Strip(SubSeq(condition, pos + 1, Len(condition)))]
    ELSE [ok |-> FALSE, column |-> <<>>, operator |-> "", value |-> <<>>]

parse_conditions(condition) == Matched(condition, FirstOf(condition, OPERATORS))

\* What the except clauses of main print for an exception.
ErrorLine(err) ==
    [NoOutput EXCEPT !.kind = IF err = "ZeroDivisionError" THEN "unexpected"
                                                           ELSE "error",
                     !.err = err]

\* tabulate([{f"{column}_{function}": aggregated_result}], headers="keys")
AggregateTable(column, function, num) ==
    [NoOutput EXCEPT !.kind = "aggregate",
                     !.header = column \o <<"_">> \o function, !.num = num]

\* The last lines of the try block: the table of result_data, or the message.
RowsTable(rows) ==
    IF rows # <<>>
    THEN [NoOutput EXCEPT !.kind = "rows", !.header = Header, !.rows = rows]
    ELSE [NoOutput EXCEPT !.kind = "nodata"]


\* A processor constructed on a file, used as a library (tests/test_csv.py).
Init ==
    /\ \E rows \in Files :
         \E self \in {Construct(rows, Header)} :
           /\ data = self.data
           /\ columns = self.columns
           /\ cache_type = self.cache_type
    /\ ret = NoCall
    /\ pc = "lib"
    /\ args = NoArgs
    /\ loaded = <<>>
    /\ result_data = <<>>
    /\ output = NoOutput

Idle == UNCHANGED <<columns, pc, args, loaded, result_data, output>>

FindType ==
    /\ pc = "lib"
    /\ \E column \in Range(columns) :
         \E t \in {FindColumnType(Self, column)} :
             /\ cache_type' = t.cache_type
             /\ ret' = Call("find_type", column, "", <<>>, <<>>, <<>>,
                            [NoOutcome EXCEPT !.type = t.type])
    /\ UNCHANGED data
    /\ Idle

FilterData ==
    /\ pc = "lib"
    /\ \E column \in CallColumns, operator \in OPERATORS, value \in CallValues :
         \E out \in {filter_data(Self, column, operator, value)} :
             /\ data' = out.data
             /\ cache_type' = out.cache_type
             /\ ret' = Call("filter", column, operator, <<>>, <<>>, value, out)
    /\ Idle

\* processor.data = the rows the last filter_data returned
ReplaceData ==
    /\ pc = "lib"
    /\ ret.op = "filter"
    /\ ret.err = "none"
    /\ data' = ret.rows
    /\ ret' = [NoCall EXCEPT !.op = "replace"]
    /\ UNCHANGED cache_type
    /\ Idle

AggregateData ==
    /\ pc = "lib"
    /\ \E column \in CallColumns, function \in CallFunctions :
         \E out \in {aggregate_data(Self, column, function)} :
             /\ data' = out.data
             /\ cache_type' = out.cache_type
             /\ ret' = Call("aggregate", column, "", function, <<>>, <<>>, out)
    /\ Idle

SortData ==
    /\ pc = "lib"
    /\ \E column \in CallColumns, direction \in CallDirections :
         \E out \in {sort_data(Self, column, direction)} :
             /\ data' = out.data
             /\ cache_type' = out.cache_type
             /\ ret' = Call("sort", column, "", <<>>, direction, <<>>, out)
    /\ Idle

Next == FindType \/ FilterData \/ ReplaceData \/ AggregateData \/ SortData

Spec == Init /\ [][Next]_vars


(***************************************************************************)
(* One run of main: pc is the statement main is at.                        *)
(***************************************************************************)
InitMain ==
    /\ args \in [where : WhereArgs, aggregate : AggregateArgs, order_by : OrderByArgs]
    /\ pc = "start"
    /\ data = <<>>
    /\ columns = <<>>
    /\ cache_type = <<>>
    /\ ret = NoCall
    /\ loaded = <<>>
    /\ result_data = <<>>
    /\ output = NoOutput

Finish(out) == pc' = "done" /\ output' = out

\* main.py lines 30-36: no option prints the help; else the file is loaded.
MainStart ==
    /\ pc = "start"
    /\ IF args.where = <<>> /\ args.aggregate = <<>> /\ args.order_by = <<>>
       THEN /\ Finish([NoOutput EXCEPT !.kind = "help"])
            /\ UNCHANGED <<data, columns, cache_type, loaded, result_data>>
       ELSE \/ /\ Finish(ErrorLine("FileNotFound"))
               /\ UNCHANGED <<data, columns, cache_type, loaded, result_data>>
            \/ \E rows \in Files :
                 \E self \in {Construct(rows, Header)} :
                   /\ data' = self.data
                   /\ columns' = self.columns
                   /\ cache_type' = self.cache_type
                   /\ loaded' = rows
                   /\ result_data' = self.data
                   /\ pc' = "where"
                   /\ UNCHANGED output
    /\ UNCHANGED <<ret, args>>

\* Mutant of MainWhere: processor.data = result_data is left out.
MainWhereNoReplace ==
    /\ pc = "where"
    /\ IF args.where = <<>>
       THEN /\ pc' = "aggregate"
            /\ UNCHANGED <<data, cache_type, ret, result_data, output>>
       ELSE \E c \in {parse_conditions(args.where)} :
              IF ~c.ok
              THEN /\ Finish(ErrorLine("InvalidConditionFormat"))
                   /\ UNCHANGED <<data, cache_type, ret, result_data>>
              ELSE \E out \in {filter_data(Self, c.column, c.operator, c.value)} :
                     /\ ret' = Call("filter", c.column, c.operator, <<>>, <<>>,
                                    c.value, out)
                     /\ cache_type' = out.cache_type
                     /\ IF out.err # "none"
                        THEN /\ Finish(ErrorLine(out.err))
                             /\ data' = out.data
                             /\ UNCHANGED result_data
                        ELSE /\ result_data' = out.rows
                             /\ data' = out.data
                             /\ pc' = "aggregate"
                             /\ UNCHANGED output
    /\ UNCHANGED <<columns, args, loaded>>

\* main.py lines 38-41
MainWhere ==
    /\ pc = "where"
    /\ IF args.where = <<>>
       THEN /\ pc' = "aggregate"
            /\ UNCHANGED <<data, cache_type, ret, result_data, output>>
       ELSE \E c \in {parse_conditions(args.where)} :
              IF ~c.ok
              THEN /\ Finish(ErrorLine("InvalidConditionFormat"))
                   /\ UNCHANGED <<data, cache_type, ret, result_data>>
              ELSE \E out \in {filter_data(Self, c.column, c.operator, c.value)} :
                     /\ ret' = Call("filter", c.column, c.operator, <<>>, <<>>,
                                    c.value, out)
                     /\ cache_type' = out.cache_type
                     /\ IF out.err # "none"
                        THEN /\ Finish(ErrorLine(out.err))
                             /\ data' = out.data
                             /\ UNCHANGED result_data
                        ELSE /\ result_data' = out.rows
                             /\ data' = out.rows
                             /\ pc' = "aggregate"
                             /\ UNCHANGED output
    /\ UNCHANGED <<columns, args, loaded>>

\* main.py lines 43-46
MainAggregate ==
    /\ pc = "aggregate"
    /\ IF args.aggregate = <<>>
       THEN /\ pc' = "order_by"
            /\ UNCHANGED <<data, cache_type, ret, output>>
       ELSE \E c \in {parse_conditions(args.aggregate)} :
              IF ~c.ok
              THEN /\ Finish(ErrorLine("InvalidConditionFormat"))
                   /\ UNCHANGED <<data, cache_type, ret>>
              ELSE \E out \in {aggregate_data(Self, c.column, c.value)} :
                     /\ ret' = Call("aggregate", c.column, "", c.value, <<>>,
                                    <<>>, out)
                     /\ cache_type' = out.cache_type
                     /\ data' = out.data
                     /\ Finish(IF out.err # "none"
                               THEN ErrorLine(out.err)
                               ELSE AggregateTable(c.column, c.value, out.num))
    /\ UNCHANGED <<columns, args, loaded, result_data>>

\* main.py lines 48-52
MainOrderBy ==
    /\ pc = "order_by"
    /\ IF args.order_by = <<>>
       THEN /\ pc' = "print"
            /\ UNCHANGED <<data, cache_type, ret, result_data, output>>
       ELSE \E c \in {parse_conditions(args.order_by)} :
              IF ~c.ok \/ c.value \notin {asc, desc}
              THEN /\ Finish(ErrorLine(IF ~c.ok THEN "InvalidConditionFormat"
                                                ELSE "InvalidDirection"))
                   /\ UNCHANGED <<data, cache_type, ret, result_data>>
              ELSE \E out \in {sort_data(Self, c.column, c.value)} :
                     /\ ret' = Call("sort", c.column, "", <<>>, c.value, <<>>, out)
                     /\ cache_type' = out.cache_type
                     /\ data' = out.data
                     /\ IF out.err # "none"
                        THEN /\ Finish(ErrorLine(out.err))
                             /\ UNCHANGED result_data
                        ELSE /\ result_data' = out.rows
                             /\ pc' = "print"
                             /\ UNCHANGED output
    /\ UNCHANGED <<columns, args, loaded>>

\* main.py lines 54-57
MainPrint ==
    /\ pc = "print"
    /\ Finish(RowsTable(result_data))
    /\ UNCHANGED <<data, columns, cache_type, ret, args, loaded, result_data>>

NextMain == MainStart \/ MainWhere \/ MainAggregate \/ MainOrderBy \/ MainPrint

SpecMain == InitMain /\ [][NextMain]_vars

(***************************************************************************)
(* Vocabulary of the claims.                                               *)
(***************************************************************************)
Existing == Range(columns)

Failed == ret.err # "none"

\* The type the specification gives a column over a row list.
DeclaredType(rows, column) ==
    IF \E i \in 1..Len(rows) : ~PyFloat(Strip(rows[i][column])).ok THEN "str"
    ELSE IF \E i \in 1..Len(rows) : Contains(Strip(rows[i][column]), ".") THEN "float"
    ELSE "int"

\* The inferred type of a column in the current state.
TypeNow(column) ==
    IF cache_type[column] # None THEN cache_type[column]
    ELSE DeclaredType(data, column)

Key(rows, i, column, column_type) == Coerce(column_type, rows[i][column]).v

\* The rows of `rows` at the indices in idx, in their order in `rows`.
Pick(rows, idx) ==
    [k \in 1..Cardinality(idx) |->
        rows[CHOOSE i \in idx : Cardinality({j \in idx : j <= i}) = k]]

Bijections(n) == {f \in [1..n -> 1..n] : \A i, j \in 1..n : i # j => f[i] # f[j]}

\* C1: filter_data on an existing column with an operator of {>, <, =} and a
\* rawValue the inferred type accepts returns exactly the current rows whose
\* coerced value satisfies the operator against the coerced rawValue, in
\* their original order.
FilterReturnsExactlyTheMatches ==
    (/\ ret.op = "filter"
     /\ ret.column \in Existing
     /\ Coerce(TypeNow(ret.column), ret.value).ok)
    => /\ ~Failed
       /\ ret.rows =
            Pick(data, {i \in 1..Len(data) :
                          ApplyOperator(ret.operator, TypeNow(ret.column),
                                        Key(data, i, ret.column, TypeNow(ret.column)),
                                        Coerce(TypeNow(ret.column), ret.value).v)})

\* C2: sort_data on an existing column, asc or desc, returns a permutation of
\* the current rows with non-decreasing (asc) or non-increasing (desc) coerced
\* values, rows of equal key keeping their relative order.
SortIsOrderedStablePermutation ==
    (ret.op = "sort" /\ ret.column \in Existing /\ ret.direction \in {asc, desc})
    => /\ ~Failed
       /\ \E f \in Bijections(Len(data)) :
            /\ Len(ret.rows) = Len(data)
            /\ \A i \in 1..Len(data) : ret.rows[i] = data[f[i]]
            /\ \A i, j \in 1..Len(data) :
                 i < j =>
                   LET t == TypeNow(ret.column)
                       ki == Key(ret.rows, i, ret.column, t)
                       kj == Key(ret.rows, j, ret.column, t)
                   IN  /\ ret.direction = asc => ~Less(t, kj, ki)
                       /\ ret.direction = desc => ~Less(t, ki, kj)
                       /\ ki = kj => f[i] < f[j]

\* C4: on a numeric column and a non-empty current row list, avg is the sum
\* of the coerced values divided by their count, min / max the smallest /
\* largest coerced value, all over the current rows.
AggregateOverCurrentRows ==
    (/\ ret.op = "aggregate"
     /\ ret.column \in Existing
     /\ ret.function \in AGGREGATORS
     /\ TypeNow(ret.column) \in {"int", "float"}
     /\ data # <<>>)
    => /\ ~Failed
       /\ LET t == TypeNow(ret.column)
              n == Len(data)
          IN  /\ ret.function = avg =>
                   ret.num[1] * n = ret.num[2] * Sum([i \in 1..n |-> Key(data, i, ret.column, t)])
              /\ ret.function = min =>
                   /\ ret.num[2] = 1
                   /\ \E i \in 1..n : ret.num[1] = Key(data, i, ret.column, t)
                   /\ \A i \in 1..n : ret.num[1] <= Key(data, i, ret.column, t)
              /\ ret.function = max =>
                   /\ ret.num[2] = 1
                   /\ \E i \in 1..n : ret.num[1] = Key(data, i, ret.column, t)
                   /\ \A i \in 1..n : ret.num[1] >= Key(data, i, ret.column, t)

\* C3: the first inference on a column returns str if some row's trimmed
\* value is not a number, float if all are numbers and one has a ".", int if
\* all are numbers and none has a ".".
FirstInferenceIsDeclaredType ==
    [][(/\ ret'.op \in {"find_type", "filter", "aggregate", "sort"}
        /\ ret'.type # None
        /\ cache_type[ret'.column] = None)
       => ret'.type = DeclaredType(data, ret'.column)]_vars

FirstInferenceWitness ==
    /\ ret.op = "find_type"
    /\ ret.type = "float"
    /\ Len(data) = 2
    /\ ~Contains(data[2][ret.column], ".")

\* C5: a cache entry is written at most once, by the first inference on its
\* column and with the type that inference computed; it is never reset and
\* never changes, also when filtering removes rows.
CacheWrittenOnce ==
    [][/\ DOMAIN cache_type' = DOMAIN cache_type
       /\ \A c \in DOMAIN cache_type :
            /\ cache_type[c] # None => cache_type'[c] = cache_type[c]
            /\ (cache_type[c] = None /\ cache_type'[c] # None)
                 => (c = ret'.column /\ cache_type'[c] = DeclaredType(data, c))]_vars

\* a cached type that the remaining rows would no longer be given
CacheWrittenOnceWitness ==
    /\ ret.op \in {"filter", "aggregate", "sort"}
    /\ ret.column \in Existing
    /\ data # <<>>
    /\ cache_type[ret.column] = "str"
    /\ DeclaredType(data, ret.column) = "int"

\* C6 (as stated): aggregate_data on an existing Text column fails with
\* AggregationUnsupported for any function name, recognised or not.
TextAggregateAlwaysUnsupported ==
    (ret.op = "aggregate" /\ ret.column \in Existing /\ TypeNow(ret.column) = "str")
    => ret.err = "AggregationUnsupported"

\* C6 (amended): on an existing Text column a recognised function (avg, min,
\* max) fails with AggregationUnsupported; an unrecognised one fails with
\* UnsupportedFunction, the function name being checked before the type.
TextAggregateUnsupported ==
    (ret.op = "aggregate" /\ ret.column \in Existing /\ TypeNow(ret.column) = "str")
    => ret.err = IF ret.function \in AGGREGATORS THEN "AggregationUnsupported"
                                                 ELSE "UnsupportedFunction"

TextAggregateWitness ==
    /\ ret.op = "aggregate"
    /\ ret.column = price
    /\ ret.function = min
    /\ ret.err = "AggregationUnsupported"
    /\ Len(data) = 2

\* C7: aggregating (avg, min or max) a numeric column over an empty current
\* row list fails with EmptyDataset, never with a division by zero, a min/max
\* of an empty sequence or another error.
EmptyAggregateIsEmptyDataset ==
    (/\ ret.op = "aggregate"
     /\ ret.column \in Existing
     /\ TypeNow(ret.column) \in {"int", "float"}
     /\ ret.function \in AGGREGATORS
     /\ data = <<>>)
    => ret.err = "EmptyDataset"

InferredTypeCoercesEveryRow ==
    \A c \in Existing :
        cache_type[c] \in {"int", "float"} => RowsCoerce(data, c, cache_type[c])

(***************************************************************************)
(* One run of main, as the specification orders it, from the loaded rows.  *)
(***************************************************************************)
WhereCond == parse_conditions(args.where)

AggregateCond == parse_conditions(args.aggregate)

OrderByCond == parse_conditions(args.order_by)

\* The processor after the --where filter, if given, has replaced its rows.
Filtered ==
    LET self == Construct(loaded, Header)
        out == filter_data(self, WhereCond.column, WhereCond.operator, WhereCond.value)
    IN  IF args.where = <<>> THEN self
        ELSE [self EXCEPT !.data = out.rows, !.cache_type = out.cache_type]

\* C8: the --where filter runs first and its result replaces the row list;
\* with --aggregate the aggregate is computed over the replaced list, the
\* one-row table headed <column>_<function> is printed and neither the sort
\* runs nor the row table is printed; without it the sort, if given, is
\* applied to the filtered rows, which are then printed.  (A step that raises
\* ends the run with an error line.)
MainRunsWhereThenAggregateElseSort ==
    /\ ret.op = "sort" => args.aggregate = <<>>
    /\ output.kind \in {"rows", "nodata"} => args.aggregate = <<>>
    /\ pc \in {"aggregate", "order_by", "print"} => data = Filtered.data
    /\ pc \in {"aggregate", "order_by"} =>
         /\ result_data = Filtered.data
         /\ cache_type = Filtered.cache_type
    /\ (pc = "done" /\ args.aggregate # <<>> /\ output.kind \notin {"error", "unexpected"})
         => output = AggregateTable(AggregateCond.column, AggregateCond.value,
                                    aggregate_data(Filtered, AggregateCond.column,
                                                   AggregateCond.value).num)
    /\ (pc = "done" /\ output.kind \in {"rows", "nodata"})
         => output = RowsTable(IF args.order_by = <<>> THEN Filtered.data
                               ELSE sort_data(Filtered, OrderByCond.column,
                                              OrderByCond.value).rows)

MainRunWitness ==
    /\ pc = "done"
    /\ output.kind = "aggregate"
    /\ output.header = <<"p", "_", "a", "v", "g">>
    /\ args.where # <<>>
    /\ args.order_by # <<>>
    /\ data # <<>>
    /\ Len(data) < Len(loaded)

====
